---------------------------- MODULE Spec2Model ----------------------------
(***************************************************************************)
(* A model of capmit1003.py: the CapMIT1003 wrapper around a SQLite3       *)
(* database (constructor, scoped connection, two read queries) and the     *)
(* static helper download_images.                                          *)
(*                                                                         *)
(* Five specifications share the module, one per part of the program:      *)
(*   SpecDownload  calls of download_images on a two-entry filesystem      *)
(*   SpecCtor      CapMIT1003.__init__                                     *)
(*   SpecConn      __enter__ / __exit__ on one instance                    *)
(*   SpecCaptions  get_captions on a database of captions and images       *)
(*   SpecClicks    get_click_path on a database of clicks                  *)
(* Paths are sequences of characters, so that os.path.join and the string  *)
(* concatenation of get_captions are computed, not assumed.                *)
(***************************************************************************)
EXTENDS Integers, Sequences, FiniteSets, TLC

VARIABLES
    \* ---- download_images -------------------------------------------------
    fs_mit,      \* what is at the path 'mit1003'
    fs_zip,      \* what is at the path 'mit1003.zip'
    pc,          \* position of the running call of download_images
    quiet,       \* the argument of the running call
    start_mit,   \* fs_mit when the running call started
    start_zip,   \* fs_zip when the running call started
    trace,       \* fetch / extraction events of the running call, in order
    printed,     \* messages the running call printed
    calls,       \* number of finished calls
    okSeen,      \* an earlier call returned without a fault
    okSeenMit,   \* ... and 'mit1003' existed when it returned
    \* ---- CapMIT1003.__init__ ---------------------------------------------
    fs_db,          \* what is at db_path
    fs_img,         \* what is at img_path
    db_path_type,   \* Python type of the db_path argument
    img_path_type,  \* Python type of the img_path argument
    img_path_arg,   \* text of the img_path argument
    obj,            \* "none", "constructed", or "raised" (__init__ raised)
    self_img_path,  \* self.img_path
    warned,         \* warnings __init__ emitted, in order
    \* ---- __enter__ / __exit__ --------------------------------------------
    conns,          \* connections the instance opened, "open" or "closed"
    cnx,            \* self.cnx: an index of conns, 0 while the attribute is unset
    lastOp,         \* outcome of the last __enter__ / __exit__
    nestedEver,     \* __enter__ ran while self.cnx was an open connection
    depth,          \* entries not yet matched by an exit
    \* ---- the database and the two queries --------------------------------
    captions,       \* rows of table captions
    images,         \* rows of table images
    clicks,         \* rows of table clicks
    cap_result,     \* what the last get_captions gave
    cap_calls,      \* number of get_captions calls
    click_arg,      \* obs_uid of the last get_click_path
    click_result,   \* what the last get_click_path gave
    click_calls     \* number of get_click_path calls

dlvars == <<fs_mit, fs_zip, pc, quiet, start_mit, start_zip, trace, printed,
            calls, okSeen, okSeenMit>>

ctorvars == <<fs_img, db_path_type, img_path_type, img_path_arg, obj,
              self_img_path, warned>>

connvars == <<conns, cnx, lastOp, nestedEver, depth>>

tabvars == <<captions, images, clicks>>

capvars == <<cap_result, cap_calls>>

clickvars == <<click_arg, click_result, click_calls>>

objvars == <<fs_db, ctorvars, connvars, tabvars, capvars, clickvars>>

vars == <<dlvars, objvars>>

\* Number of calls of download_images in one behaviour.
MaxCalls == 2

(***************************************************************************)
(* The filesystem, as os.path.exists sees it.                              *)
(***************************************************************************)
\* 'mit1003' is absent, a regular file or a directory.
MitKinds == {"absent", "file", "dir"}

\* 'mit1003.zip' is absent, a zip archive with entries, a zip archive with
\* no entry, a file that is no readable archive, or a directory.
ZipFileKinds == {"archive", "empty", "bad"}

ZipKinds == {"absent", "dir"} \cup ZipFileKinds

\* os.path.isdir in the place of os.path.exists.
ExistsPath_isdir(kind) == kind = "dir"

\* os.path.exists(p): true of a file and of a directory alike.
ExistsPath(kind) == kind # "absent"

Contains(s, e) == \E i \in DOMAIN s : s[i] = e

Count(s, e) == Cardinality({i \in DOMAIN s : s[i] = e})

(***************************************************************************)
(* download_images, statement by statement.                                *)
(***************************************************************************)
download_images_call ==
    /\ pc = "idle"
    /\ calls < MaxCalls
    /\ \E q \in BOOLEAN : quiet' = q
    /\ pc' = "line83"
    /\ start_mit' = fs_mit
    /\ start_zip' = fs_zip
    /\ trace' = <<>>
    /\ printed' = <<>>
    /\ UNCHANGED <<fs_mit, fs_zip, calls, okSeen, okSeenMit>>
    /\ UNCHANGED objvars

\* The outer existence test left out.
download_images_check_dir_always ==
    /\ pc = "line83"
    /\ pc' = "line84"
    /\ UNCHANGED <<fs_mit, fs_zip, quiet, start_mit, start_zip, trace, printed,
                   calls, okSeen, okSeenMit>>
    /\ UNCHANGED objvars

\* if not os.path.exists('mit1003'):
download_images_check_dir ==
    /\ pc = "line83"
    /\ pc' = IF ~ExistsPath(fs_mit) THEN "line84" ELSE "returned"
    /\ UNCHANGED <<fs_mit, fs_zip, quiet, start_mit, start_zip, trace, printed,
                   calls, okSeen, okSeenMit>>
    /\ UNCHANGED objvars

\* The archive test inverted: fetch when the archive is there.
download_images_check_zip_inverted ==
    /\ pc = "line84"
    /\ pc' = IF fs_zip # "absent" THEN "line86" ELSE "line88"
    /\ UNCHANGED <<fs_mit, fs_zip, quiet, start_mit, start_zip, trace, printed,
                   calls, okSeen, okSeenMit>>
    /\ UNCHANGED objvars

\* if not os.path.exists('mit1003.zip'):
download_images_check_zip ==
    /\ pc = "line84"
    /\ pc' = IF ~ExistsPath(fs_zip) THEN "line86" ELSE "line88"
    /\ UNCHANGED <<fs_mit, fs_zip, quiet, start_mit, start_zip, trace, printed,
                   calls, okSeen, okSeenMit>>
    /\ UNCHANGED objvars

\* A fetch whose failure is swallowed (try/except: pass around urlretrieve).
download_images_urlretrieve_swallow ==
    /\ pc = "line86"
    /\ printed' = IF quiet THEN printed ELSE Append(printed, "Downloading")
    /\ \/ /\ \E k \in {"archive", "empty", "bad"} : fs_zip' = k
          /\ trace' = Append(trace, "fetch_ok")
       \/ /\ \E k \in {fs_zip, "bad"} : fs_zip' = k
          /\ trace' = Append(trace, "fetch_fault")
    /\ pc' = "line88"
    /\ UNCHANGED <<fs_mit, quiet, start_mit, start_zip, calls, okSeen, okSeenMit>>
    /\ UNCHANGED objvars

\* print(...); urlretrieve(URL, 'mit1003.zip').  A fetch that succeeds leaves
\* whatever the server sent in the file; one that fails raises, and leaves no
\* file or a truncated one.
download_images_urlretrieve ==
    /\ pc = "line86"
    /\ printed' = IF quiet THEN printed ELSE Append(printed, "Downloading")
    /\ \/ /\ \E k \in ZipFileKinds : fs_zip' = k
          /\ trace' = Append(trace, "fetch_ok")
          /\ pc' = "line88"
       \/ /\ \E k \in {fs_zip, "bad"} : fs_zip' = k
          /\ trace' = Append(trace, "fetch_fault")
          /\ pc' = "raised"
    /\ UNCHANGED <<fs_mit, quiet, start_mit, start_zip, calls, okSeen, okSeenMit>>
    /\ UNCHANGED objvars

\* print(...); unpack_archive('mit1003.zip', 'mit1003').  An archive without
\* entries unpacks to nothing; what is no archive raises before anything is
\* written; an archive with entries creates the directory, and may still fail
\* part-way.
download_images_unpack_archive ==
    /\ pc = "line88"
    /\ printed' = IF quiet THEN printed ELSE Append(printed, "Extracting")
    /\ \/ /\ fs_zip = "archive"
          /\ fs_mit' = "dir"
          /\ trace' = Append(trace, "extract_ok")
          /\ pc' = "returned"
       \/ /\ fs_zip = "archive"
          /\ \E k \in {fs_mit, "dir"} : fs_mit' = k
          /\ trace' = Append(trace, "extract_fault")
          /\ pc' = "raised"
       \/ /\ fs_zip = "empty"
          /\ fs_mit' = fs_mit
          /\ trace' = Append(trace, "extract_ok")
          /\ pc' = "returned"
       \/ /\ fs_zip \in {"bad", "dir", "absent"}
          /\ fs_mit' = fs_mit
          /\ trace' = Append(trace, "extract_fault")
          /\ pc' = "raised"
    /\ UNCHANGED <<fs_zip, quiet, start_mit, start_zip, calls, okSeen, okSeenMit>>
    /\ UNCHANGED objvars

\* The call is over: it returned None or an exception reached the caller.
download_images_end ==
    /\ pc \in {"returned", "raised"}
    /\ pc' = "idle"
    /\ calls' = calls + 1
    /\ okSeen' = (okSeen \/ pc = "returned")
    /\ okSeenMit' = (okSeenMit \/ (pc = "returned" /\ ExistsPath(fs_mit)))
    /\ UNCHANGED <<fs_mit, fs_zip, quiet, start_mit, start_zip, trace, printed>>
    /\ UNCHANGED objvars

(***************************************************************************)
(* CapMIT1003.__init__                                                     *)
(***************************************************************************)
\* What can be at db_path and at img_path.
PathKinds == {"absent", "file", "dir"}

\* Union[str, bytes, os.PathLike]
ArgTypes == {"str", "bytes", "PathLike"}

\* img_path arguments: empty, without and with a trailing separator.
ImgPathArgs == {<<>>, <<"d">>, <<"d", "/">>}

\* The value of an attribute that was never assigned.
Unset == <<"unset">>

\* os.path.isfile(p), os.path.isdir(p)
IsFile(kind) == kind = "file"

IsDir(kind) == kind = "dir"

\* os.path.join(p, ''): p with a separator appended, unless p is empty or
\* ends with one already.
JoinEmpty(p) ==
    IF p = <<>> \/ p[Len(p)] = "/" THEN p ELSE p \o <<"/">>

\* Lines 32-33 and 34-35: the two tests and the warnings they emit.
DbWarning(kind) ==
    IF ~ExistsPath(kind) /\ ~IsFile(kind) THEN <<"database">> ELSE <<>>

ImgWarning(kind) ==
    IF ~ExistsPath(kind) /\ ~IsDir(kind) THEN <<"images">> ELSE <<>>

\* os.path.join raises TypeError when img_path is bytes (it is joined with the
\* str ''); nothing after line 31 runs then.
init ==
    /\ obj = "none"
    /\ IF img_path_type = "bytes"
          THEN /\ obj' = "raised"
               /\ self_img_path' = Unset
               /\ warned' = <<>>
          ELSE /\ obj' = "constructed"
               /\ self_img_path' = JoinEmpty(img_path_arg)
               /\ warned' = DbWarning(fs_db) \o ImgWarning(fs_img)
    /\ UNCHANGED <<fs_db, fs_img, db_path_type, img_path_type, img_path_arg>>
    /\ UNCHANGED <<dlvars, connvars, tabvars, capvars, clickvars>>

(***************************************************************************)
(* __enter__ and __exit__                                                  *)
(***************************************************************************)
\* Number of connections one instance opens in one behaviour.
MaxConns == 3

OpenConns == {i \in DOMAIN conns : conns[i] = "open"}

\* self.cnx = sqlite3.connect(self.db_path): raises when db_path is a
\* directory, creates the file when nothing is there.  The connection self.cnx
\* named before is not closed.
enter ==
    /\ obj = "constructed"
    /\ Len(conns) < MaxConns
    /\ IF IsDir(fs_db)
          THEN /\ lastOp' = "enter_raised"
               /\ UNCHANGED <<fs_db, conns, cnx, nestedEver, depth>>
          ELSE /\ fs_db' = "file"
               /\ conns' = Append(conns, "open")
               /\ cnx' = Len(conns) + 1
               /\ nestedEver' = (nestedEver \/ (cnx # 0 /\ conns[cnx] = "open"))
               /\ depth' = depth + 1
               /\ lastOp' = "entered"
    /\ UNCHANGED <<dlvars, ctorvars, tabvars, capvars, clickvars>>

\* __exit__ with the body left out.
exit_noclose ==
    /\ obj = "constructed"
    /\ \E exc \in BOOLEAN :
          IF cnx = 0
             THEN /\ lastOp' = "exit_raised"
                  /\ UNCHANGED <<conns, depth>>
             ELSE /\ conns' = conns
                  /\ depth' = IF depth > 0 THEN depth - 1 ELSE depth
                  /\ lastOp' = IF exc THEN "exited_exc" ELSE "exited"
    /\ UNCHANGED <<fs_db, cnx, nestedEver>>
    /\ UNCHANGED <<dlvars, ctorvars, tabvars, capvars, clickvars>>

\* self.cnx.close(): AttributeError when __enter__ never set self.cnx; closing
\* a closed connection does nothing.  __exit__ returns None, so an exception
\* of the body (exc) goes on to the caller after the close.
exit ==
    /\ obj = "constructed"
    /\ \E exc \in BOOLEAN :
          IF cnx = 0
             THEN /\ lastOp' = "exit_raised"
                  /\ UNCHANGED <<conns, depth>>
             ELSE /\ conns' = [conns EXCEPT ![cnx] = "closed"]
                  /\ depth' = IF depth > 0 THEN depth - 1 ELSE depth
                  /\ lastOp' = IF exc THEN "exited_exc" ELSE "exited"
    /\ UNCHANGED <<fs_db, cnx, nestedEver>>
    /\ UNCHANGED <<dlvars, ctorvars, tabvars, capvars, clickvars>>

\* A connection self.cnx no longer names is closed only when the runtime
\* finalises it, which may be at once, later or never.
finalize ==
    /\ \E i \in OpenConns :
          /\ i # cnx
          /\ conns' = [conns EXCEPT ![i] = "closed"]
    /\ UNCHANGED <<fs_db, cnx, lastOp, nestedEver, depth>>
    /\ UNCHANGED <<dlvars, ctorvars, tabvars, capvars, clickvars>>

(***************************************************************************)
(* The database.                                                           *)
(***************************************************************************)
\* Rows per table.
MaxCaptions == 2

MaxImages == 2

MaxClicks == 2

\* Calls of one query method in one behaviour.
MaxQueries == 2

NullPath == <<"NULL">>

\* A missing value in a pandas column.
NaN == <<"NaN">>

ImgUids == {"i1", "i2"}

StoredPaths == {<<"a">>}

ObsUids == {"o1", "o2"}

\* obs_uid arguments of get_click_path: two that may occur, one that never does.
ObsArgs == ObsUids \cup {"o3"}

SeqsUpTo(S, n) == UNION {[1..k -> S] : k \in 0..n}

\* Table captions: obs_uid is its key (the row number here); img_uid may be
\* NULL.
CaptionsTables ==
    {[k \in DOMAIN u |->
         [obs_uid |-> k, usr_uid |-> "u", start_time |-> "t", caption |-> "c",
          img_uid |-> u[k]]] : u \in SeqsUpTo(ImgUids \cup {"NULL"}, MaxCaptions)}

\* Table images: nothing in the program makes img_uid unique or not NULL.
ImagesTables ==
    SeqsUpTo([img_uid : ImgUids \cup {"NULL"}, img_path : StoredPaths \cup {NullPath}],
             MaxImages)

\* Table clicks: click_id is its key (the row number here).
ClicksTables ==
    {[k \in DOMAIN u |->
         [click_id |-> k, obs_uid |-> u[k].obs_uid, x |-> u[k].x, y |-> k,
          click_time |-> k]] :
       u \in SeqsUpTo([obs_uid : ObsUids \cup {"NULL"}, x : {1, 2}], MaxClicks)}

\* SQL's = : never true of NULL.
SqlEq(a, b) == a # "NULL" /\ b # "NULL" /\ a = b

NoResult == [status |-> "none", columns |-> <<>>, rows |-> <<>>]

\* The query raised: self.cnx is unset or closed.
Raised == [status |-> "raised", columns |-> <<>>, rows |-> <<>>]

CnxOpen == cnx # 0 /\ conns[cnx] = "open"

(***************************************************************************)
(* get_captions                                                            *)
(***************************************************************************)
\* SELECT * with USING(img_uid): the columns of captions, then those of images
\* without img_uid.
CaptionColumns ==
    <<"obs_uid", "usr_uid", "start_time", "caption", "img_uid", "img_path">>

JoinedRow(c, path) ==
    [obs_uid |-> c.obs_uid, usr_uid |-> c.usr_uid, start_time |-> c.start_time,
     caption |-> c.caption, img_uid |-> c.img_uid, img_path |-> path]

MatchingImages(c) == SelectSeq(images, LAMBDA i : SqlEq(c.img_uid, i.img_uid))

\* An inner join: a caption without image gives no row.
InnerJoinRows(c) ==
    [k \in DOMAIN MatchingImages(c) |-> JoinedRow(c, MatchingImages(c)[k].img_path)]

\* LEFT JOIN: one row per matching images row, and one row with NULLs when
\* none matches.
LeftJoinRows(c) ==
    IF MatchingImages(c) = <<>>
       THEN <<JoinedRow(c, NullPath)>>
       ELSE [k \in DOMAIN MatchingImages(c) |->
                JoinedRow(c, MatchingImages(c)[k].img_path)]

RECURSIVE LeftJoin(_)
LeftJoin(cs) ==
    IF cs = <<>> THEN <<>> ELSE LeftJoinRows(Head(cs)) \o LeftJoin(Tail(cs))

\* The column left as the database gave it.
AddPrefix_none(prefix, v) == IF v = NullPath THEN NaN ELSE v

\* self.img_path + captions['img_path'], element by element: a missing
\* element stays missing.
AddPrefix(prefix, v) == IF v = NullPath THEN NaN ELSE prefix \o v

get_captions ==
    /\ obj = "constructed"
    /\ cap_calls < MaxQueries
    /\ cap_calls' = cap_calls + 1
    /\ cap_result' =
          IF ~CnxOpen
             THEN Raised
             ELSE [status |-> "ok",
                   columns |-> CaptionColumns,
                   rows |-> [k \in DOMAIN LeftJoin(captions) |->
                               [LeftJoin(captions)[k] EXCEPT
                                  !.img_path = AddPrefix(self_img_path, @)]]]
    /\ UNCHANGED <<fs_db, dlvars, ctorvars, connvars, tabvars, clickvars>>

(***************************************************************************)
(* get_click_path                                                          *)
(***************************************************************************)
\* SELECT x, y, click_time AS time
ClickColumns == <<"x", "y", "time">>

\* The WHERE clause left out.
WhereObsUid_all(row, arg) == TRUE

\* WHERE obs_uid = ?
WhereObsUid(row, arg) == SqlEq(row.obs_uid, arg)

get_click_path ==
    /\ obj = "constructed"
    /\ click_calls < MaxQueries
    /\ click_calls' = click_calls + 1
    /\ \E arg \in ObsArgs :
          /\ click_arg' = arg
          /\ click_result' =
                IF ~CnxOpen
                   THEN Raised
                   ELSE LET sel == SelectSeq(clicks, LAMBDA r : WhereObsUid(r, arg))
                        IN  [status |-> "ok",
                             columns |-> ClickColumns,
                             rows |-> [k \in DOMAIN sel |->
                                         [x |-> sel[k].x, y |-> sel[k].y,
                                          time |-> sel[k].click_time]]]
    /\ UNCHANGED <<fs_db, dlvars, ctorvars, connvars, tabvars, capvars>>

(***************************************************************************)
(* The specifications.                                                     *)
(***************************************************************************)
NoCall ==
    /\ pc = "idle"
    /\ quiet = FALSE
    /\ start_mit = fs_mit
    /\ start_zip = fs_zip
    /\ trace = <<>>
    /\ printed = <<>>
    /\ calls = 0
    /\ okSeen = FALSE
    /\ okSeenMit = FALSE

NoInstance ==
    /\ obj = "none"
    /\ self_img_path = Unset
    /\ warned = <<>>

\* The instance __init__ leaves for str arguments.
Constructed ==
    /\ db_path_type = "str"
    /\ img_path_type = "str"
    /\ obj = "constructed"
    /\ self_img_path = JoinEmpty(img_path_arg)
    /\ warned = DbWarning(fs_db) \o ImgWarning(fs_img)

NoConnection ==
    /\ conns = <<>>
    /\ cnx = 0
    /\ lastOp = "none"
    /\ nestedEver = FALSE
    /\ depth = 0

\* The instance inside "with CapMIT1003(...) as db:".
Entered ==
    /\ conns = <<"open">>
    /\ cnx = 1
    /\ lastOp = "entered"
    /\ nestedEver = FALSE
    /\ depth = 1

NoTables == captions = <<>> /\ images = <<>> /\ clicks = <<>>

NoQueries ==
    /\ cap_result = NoResult
    /\ cap_calls = 0
    /\ click_arg = "o1"
    /\ click_result = NoResult
    /\ click_calls = 0

InitDownload ==
    /\ fs_mit \in MitKinds
    /\ fs_zip \in ZipKinds
    /\ NoCall
    /\ fs_db = "file"
    /\ fs_img = "dir"
    /\ db_path_type = "str"
    /\ img_path_type = "str"
    /\ img_path_arg = <<"d">>
    /\ NoInstance
    /\ NoConnection
    /\ NoTables
    /\ NoQueries

NextDownload ==
    \/ download_images_call
    \/ download_images_check_dir
    \/ download_images_check_zip
    \/ download_images_urlretrieve
    \/ download_images_unpack_archive
    \/ download_images_end

SpecDownload == InitDownload /\ [][NextDownload]_vars

InitCtor ==
    /\ fs_mit = "absent"
    /\ fs_zip = "absent"
    /\ NoCall
    /\ fs_db \in PathKinds
    /\ fs_img \in PathKinds
    /\ db_path_type \in ArgTypes
    /\ img_path_type \in ArgTypes
    /\ img_path_arg \in ImgPathArgs
    /\ NoInstance
    /\ NoConnection
    /\ NoTables
    /\ NoQueries

NextCtor == init

SpecCtor == InitCtor /\ [][NextCtor]_vars

InitConn ==
    /\ fs_mit = "absent"
    /\ fs_zip = "absent"
    /\ NoCall
    /\ fs_db \in PathKinds
    /\ fs_img = "dir"
    /\ img_path_arg = <<"d">>
    /\ Constructed
    /\ NoConnection
    /\ NoTables
    /\ NoQueries

NextConn ==
    \/ enter
    \/ exit
    \/ finalize

SpecConn == InitConn /\ [][NextConn]_vars

InitCaptions ==
    /\ fs_mit = "absent"
    /\ fs_zip = "absent"
    /\ NoCall
    /\ fs_db = "file"
    /\ fs_img = "dir"
    /\ img_path_arg \in ImgPathArgs
    /\ Constructed
    /\ Entered
    /\ captions \in CaptionsTables
    /\ images \in ImagesTables
    /\ clicks = <<>>
    /\ NoQueries

NextCaptions ==
    \/ get_captions
    \/ exit

SpecCaptions == InitCaptions /\ [][NextCaptions]_vars

InitClicks ==
    /\ fs_mit = "absent"
    /\ fs_zip = "absent"
    /\ NoCall
    /\ fs_db = "file"
    /\ fs_img = "dir"
    /\ img_path_arg = <<"d">>
    /\ Constructed
    /\ Entered
    /\ captions = <<>>
    /\ images = <<>>
    /\ clicks \in ClicksTables
    /\ NoQueries

NextClicks ==
    \/ get_click_path
    \/ exit

SpecClicks == InitClicks /\ [][NextClicks]_vars


(***************************************************************************)
(* Properties of download_images.  trace, start_mit and start_zip belong   *)
(* to the running call, or to the last one once pc is back to "idle".      *)
(***************************************************************************)
Fetched == Contains(trace, "fetch_ok") \/ Contains(trace, "fetch_fault")

Extracted == Contains(trace, "extract_ok") \/ Contains(trace, "extract_fault")

FsUnchanged == fs_mit = start_mit /\ fs_zip = start_zip

C7_FaultsPropagate ==
    /\ Count(trace, "fetch_ok") + Count(trace, "fetch_fault") <= 1
    /\ Count(trace, "extract_ok") + Count(trace, "extract_fault") <= 1
    /\ (pc # "idle" /\ Contains(trace, "fetch_fault"))
          => (pc = "raised" /\ trace = <<"fetch_fault">>)
    /\ (pc # "idle" /\ Contains(trace, "extract_fault")) => pc = "raised"
    /\ pc = "returned"
          => (~Contains(trace, "fetch_fault") /\ ~Contains(trace, "extract_fault"))
    /\ pc = "raised"
          => (trace # <<>> /\ trace[Len(trace)] \in {"fetch_fault", "extract_fault"})

C7_Witness == pc = "raised" /\ trace = <<"fetch_fault">> /\ fs_mit = "absent"

\* C9 as stated: once a call has returned without a fault the directory
\* 'mit1003' exists, and every later call fetches nothing, extracts nothing
\* and leaves the filesystem as it was.
C9_Original ==
    /\ pc = "returned" => fs_mit = "dir"
    /\ (okSeen /\ pc # "idle") => (~Fetched /\ ~Extracted /\ FsUnchanged)

\* C9 amended: once a call has returned without a fault, something exists at
\* 'mit1003' (a directory, or the file that was there all along) unless the
\* archive held no entry; every later call fetches nothing and leaves the
\* filesystem as it was; and it extracts nothing provided 'mit1003' existed
\* when the earlier call returned.
C9_IdempotentAfterSuccess ==
    /\ pc = "returned" => (fs_mit # "absent" \/ fs_zip = "empty")
    /\ (okSeen /\ pc # "idle") => (~Fetched /\ FsUnchanged)
    /\ (okSeenMit /\ pc # "idle") => (trace = <<>> /\ pc # "raised")

C9_Witness ==
    /\ okSeenMit
    /\ calls = 1
    /\ pc = "returned"
    /\ trace = <<>>
    /\ fs_mit = "dir"

\* C10: in one call, a fetch happens iff neither 'mit1003' nor 'mit1003.zip'
\* exists at the start; extraction is attempted iff 'mit1003' does not exist
\* at the start and no fetch faulted; the fetch comes first; and extraction
\* never starts with 'mit1003.zip' absent.
C10_StepsOrdered ==
    /\ pc \in {"returned", "raised"}
          => /\ Fetched <=> (start_mit = "absent" /\ start_zip = "absent")
             /\ Extracted <=> (start_mit = "absent" /\ ~Contains(trace, "fetch_fault"))
    /\ (Fetched /\ Extracted)
          => (Len(trace) = 2 /\ trace[1] = "fetch_ok"
              /\ trace[2] \in {"extract_ok", "extract_fault"})
    /\ pc = "line88" => fs_zip # "absent"
    /\ Extracted => fs_zip # "absent"
    /\ pc \in {"line86", "line88"} => fs_mit = "absent"

C10_Witness ==
    /\ pc = "returned"
    /\ start_mit = "absent"
    /\ start_zip = "absent"
    /\ trace = <<"fetch_ok", "extract_ok">>

(***************************************************************************)
(* Properties of __init__.                                                 *)
(***************************************************************************)
\* C5: constructing never raises; it warns about the database whenever
\* db_path is not a file (absent, or a directory), about the images whenever
\* img_path is not a directory (absent, or a file), and not otherwise.
C5_Original ==
    obj # "none"
        => /\ obj = "constructed"
           /\ Contains(warned, "database") <=> fs_db # "file"
           /\ Contains(warned, "images") <=> fs_img # "dir"

(***************************************************************************)
(* Properties of __enter__ / __exit__.                                     *)
(***************************************************************************)
\* C8 as stated: after any sequence of __enter__ and __exit__ calls at most
\* one connection the instance opened is open, and none is once every entry
\* has been matched by an exit.
C8_Original ==
    /\ Cardinality(OpenConns) <= 1
    /\ depth = 0 => OpenConns = {}

\* C8 amended: as long as __enter__ is never called while the connection of
\* an earlier __enter__ is still open (no nested entry), at most one
\* connection the instance opened is open, it is the one self.cnx names, and
\* none is open once every entry has been matched by an exit.
C8_SingleHandleUnlessNested ==
    ~nestedEver
        => /\ Cardinality(OpenConns) <= 1
           /\ OpenConns \subseteq {cnx}
           /\ depth = 0 => OpenConns = {}
           /\ lastOp \in {"exited", "exited_exc"} => OpenConns = {}

C8_Witness ==
    /\ ~nestedEver
    /\ Len(conns) = 2
    /\ lastOp = "exited_exc"
    /\ depth = 0
    /\ OpenConns = {}

(***************************************************************************)
(* Properties of get_captions.                                             *)
(***************************************************************************)
\* The images rows a caption joins with, counted without the join operators.
ImagesOf(uid) ==
    {i \in DOMAIN images : uid # "NULL" /\ images[i].img_uid = uid}

RowsOf(k) == {j \in DOMAIN cap_result.rows : cap_result.rows[j].obs_uid = k}

UniqueImgUid ==
    \A i, j \in DOMAIN images :
       (i # j /\ images[i].img_uid = images[j].img_uid) => images[i].img_uid = "NULL"

\* C3 as stated: whatever the captions and images tables hold, get_captions
\* returns as many rows as table captions has.
C3_Original ==
    cap_result.status = "ok" => Len(cap_result.rows) = Len(captions)

\* C3 amended: when no two images rows share an img_uid, get_captions returns
\* exactly one row per captions row, in any case at least one; a caption whose
\* img_uid k images rows carry (k > 1) is returned k times.
C3_OneRowPerCaption ==
    cap_result.status = "ok"
        => /\ \A k \in DOMAIN captions :
                 Cardinality(RowsOf(k)) =
                    IF ImagesOf(captions[k].img_uid) = {}
                       THEN 1
                       ELSE Cardinality(ImagesOf(captions[k].img_uid))
           /\ \A j \in DOMAIN cap_result.rows :
                 cap_result.rows[j].obs_uid \in DOMAIN captions
           /\ UniqueImgUid
                 => /\ Len(cap_result.rows) = Len(captions)
                    /\ \A k \in DOMAIN captions :
                          /\ cap_result.rows[k].obs_uid = captions[k].obs_uid
                          /\ cap_result.rows[k].img_uid = captions[k].img_uid

C3_Witness ==
    /\ cap_result.status = "ok"
    /\ Len(captions) = 2
    /\ Len(images) = 2
    /\ UniqueImgUid
    /\ ImagesOf(captions[1].img_uid) # {}
    /\ ImagesOf(captions[2].img_uid) = {}
    /\ Len(cap_result.rows) = 2

\* C4 as stated: in every row get_captions returns, img_path is the image
\* directory, ending with a separator, followed by an img_path stored in table
\* images, captions without images row included.
C4_Original ==
    cap_result.status = "ok"
        => \A j \in DOMAIN cap_result.rows :
              /\ self_img_path # <<>>
              /\ self_img_path[Len(self_img_path)] = "/"
              /\ \E i \in DOMAIN images :
                    /\ images[i].img_path # NullPath
                    /\ cap_result.rows[j].img_path = self_img_path \o images[i].img_path

\* C4 amended: self.img_path is the img_path argument with a separator
\* appended unless it ends with one or is empty; in every row get_captions
\* returns for a caption with a matching images row whose img_path is not
\* NULL, img_path is self.img_path followed by that stored img_path, once, in
\* every call; in the row of a caption without matching images row (or with a
\* NULL img_path) img_path is missing.
C4_PrefixedOnce ==
    /\ obj = "constructed"
          => /\ self_img_path \in {img_path_arg, img_path_arg \o <<"/">>}
             /\ img_path_arg # <<>>
                   => self_img_path[Len(self_img_path)] = "/"
             /\ (img_path_arg # <<>> /\ img_path_arg[Len(img_path_arg)] = "/")
                   => self_img_path = img_path_arg
    /\ cap_result.status = "ok"
          => /\ \A j \in DOMAIN cap_result.rows :
                   LET r == cap_result.rows[j]
                   IN  \/ /\ r.img_path = NaN
                          /\ \/ ImagesOf(r.img_uid) = {}
                             \/ \E i \in ImagesOf(r.img_uid) :
                                   images[i].img_path = NullPath
                       \/ \E i \in ImagesOf(r.img_uid) :
                             /\ images[i].img_path # NullPath
                             /\ r.img_path = self_img_path \o images[i].img_path
             /\ \A k \in DOMAIN captions :
                   \A i \in ImagesOf(captions[k].img_uid) :
                      \E j \in RowsOf(k) :
                         cap_result.rows[j].img_path =
                            IF images[i].img_path = NullPath
                               THEN NaN
                               ELSE self_img_path \o images[i].img_path

C4_Witness ==
    /\ cap_calls = 2
    /\ cap_result.status = "ok"
    /\ img_path_arg = <<"d">>
    /\ Len(cap_result.rows) = 2
    /\ cap_result.rows[1].img_path = <<"d", "/", "a">>
    /\ cap_result.rows[2].img_path = NaN

(***************************************************************************)
(* Properties of get_click_path.                                           *)
(***************************************************************************)
ClicksOf(arg) == {i \in DOMAIN clicks : clicks[i].obs_uid = arg}

\* C2: get_click_path(obs_uid) returns one row per clicks row with that
\* obs_uid and nothing else: every returned row is the x, y, click_time of
\* such a clicks row, and the result is empty, not an error, when there is
\* none.  (It raises only on a closed connection.)
C2_OnlyMatchingRows ==
    /\ click_result.status = "ok"
          => /\ Len(click_result.rows) = Cardinality(ClicksOf(click_arg))
             /\ \A j \in DOMAIN click_result.rows :
                   \E i \in ClicksOf(click_arg) :
                      /\ click_result.rows[j].x = clicks[i].x
                      /\ click_result.rows[j].y = clicks[i].y
                      /\ click_result.rows[j].time = clicks[i].click_time
             /\ \A i \in ClicksOf(click_arg) :
                   \E j \in DOMAIN click_result.rows :
                      /\ click_result.rows[j].x = clicks[i].x
                      /\ click_result.rows[j].y = clicks[i].y
                      /\ click_result.rows[j].time = clicks[i].click_time
    /\ click_result.status = "raised" => ~CnxOpen
    /\ (click_calls > 0 /\ CnxOpen) => click_result.status = "ok"

C2_Witness ==
    /\ click_result.status = "ok"
    /\ click_arg = "o1"
    /\ Len(clicks) = 2
    /\ clicks[1].obs_uid = "o2"
    /\ clicks[2].obs_uid = "o1"
    /\ Len(click_result.rows) = 1
    /\ click_result.rows[1].y = clicks[2].y

\* C6: the data frame get_click_path returns has the columns click_id,
\* obs_uid, x, y and click_time.
C6_Original ==
    click_result.status = "ok"
        => click_result.columns = <<"click_id", "obs_uid", "x", "y", "click_time">>

=============================================================================
